---- MODULE Spec2Model ----
(***************************************************************************)
(* A model of the battle engine of pokemon_env/src/battle_simulator.py     *)
(* (class BattleSimulator) over the data model of pokemon_env/src/models.py.*)
(*                                                                         *)
(* Under Spec one behaviour is one call of simulate_battle after both      *)
(* catalog lookups have returned a template; under LoopSpec it is a set of *)
(* calls on one event loop, lookups included; under FnSpec a single call   *)
(* of one engine function; under FetchSpec a set of calls of get_pokemon   *)
(* (pokemon_env/src/pokemon_data.py); under ServerSpec one request to      *)
(* PokemonServer (pokemon_env/src/server.py).  Random draws are            *)
(* nondeterministic choices.                                               *)
(* Floating point quantities are kept as exact rationals and truncated     *)
(* where the code calls int(); multipliers are kept in tenths and the      *)
(* random range in hundredths.                                             *)
(***************************************************************************)
EXTENDS Integers, Sequences, FiniteSets, TLC

VARIABLES
    pokemon1,     \* BattlePokemon built from the first template
    pokemon2,     \* BattlePokemon built from the second template
    turn,         \* the local turn counter of simulate_battle
    battle_log,   \* the list of BattleLog entries
    first,        \* 1: (first, second) = (pokemon1, pokemon2); 2: the reverse
    pc,           \* position inside simulate_battle
    result,       \* the returned BattleResult (winner, loser, total_turns)
    exit,         \* how the while loop was left: "none", "cond" or "cap"
    coin,         \* whether _determine_turn_order drew random.random() this turn
    attacks,      \* attacks attempted so far in the current turn
    ticks,        \* burn/poison damage applications per combatant in this turn
    events,       \* non-default random draws consumed so far
    fn,           \* the last single call of an engine function, with its
                  \* arguments and what it returned (FnSpec only)
    rng,          \* values drawn so far from the generator of module random
    cache,        \* PokemonDataFetcher.cache: cache key -> template
    tasks,        \* the simulate_battle coroutines of the process
    running,      \* the coroutine the event loop is executing, 0 for none
    fetches,      \* the get_pokemon coroutines of the fetcher (FetchSpec only)
    call,         \* the request made to PokemonServer (ServerSpec only)
    response      \* what the server gave back for it

vars == <<pokemon1, pokemon2, turn, battle_log, first, pc, result, exit,
          coin, attacks, ticks, events, fn, rng, cache, tasks, running,
          fetches, call, response>>

\* The calls in progress outside the battle engine.
ioVars == <<fetches, call, response>>

\* The state of the process outside the frame of the battle in progress.
procVars == <<cache, tasks, running, ioVars>>

(***************************************************************************)
(* Bounds of the model.                                                    *)
(***************************************************************************)
\* Non-default draws (a critical hit, a status infliction, a paralysis skip,
\* a range draw other than the lowest) a battle may consume.
MaxEvents == 2
\* Non-default draws are consumed only in turns 1..EventTurns.
EventTurns == 2
\* No turn is started with the counter above TurnLimit (never binding for
\* the loop as written, whose counter stays below MaxTurns + 1).
TurnLimit == 52

(***************************************************************************)
(* Program constants.                                                      *)
(***************************************************************************)
\* battle_simulator.py:117  if turn > 50
MaxTurns == 50
\* battle_simulator.py:215  stats.hp // 16
BurnDivisor == 16
\* battle_simulator.py:220  stats.hp // 8
PoisonDivisor == 8

Max(a, b) == IF a >= b THEN a ELSE b

\* models.py PokemonType
PokemonType ==
    {"normal", "fire", "water", "electric", "grass", "ice", "fighting",
     "poison", "ground", "flying", "psychic", "bug", "rock", "ghost",
     "dragon", "dark", "steel", "fairy"}

\* BattlePokemon.status values the engine assigns; "none" stands for None.
Statuses == {"none", "burn", "poison", "paralysis"}

\* battle_simulator.py:207 possible_statuses
possible_statuses == {"burn", "poison", "paralysis"}

\* random.uniform(0.85, 1.0) in hundredths: the two ends of the range.
RangeDraws == {85, 100}
LowestRange == 85

(***************************************************************************)
(* Creature templates (models.Pokemon): name, types, base stats.           *)
(***************************************************************************)
Template(n, ts, h, a, d, s) ==
    [name |-> n, types |-> ts,
     stats |-> [hp |-> h, attack |-> a, defense |-> d, speed |-> s]]

Pikachu  == Template("Pikachu",  <<"electric">>,        35, 55, 40, 90)
Ponyta   == Template("Ponyta",   <<"fire">>,            50, 85, 55, 90)
Diglett  == Template("Diglett",  <<"ground">>,          10, 55, 25, 95)
Bulbasaur == Template("Bulbasaur", <<"grass", "poison">>, 45, 49, 49, 45)
Squirtle == Template("Squirtle", <<"water">>,           44, 48, 65, 43)
Chansey  == Template("Chansey",  <<"normal">>,         250,  5,  5, 50)
Blissey  == Template("Blissey",  <<"normal">>,         255, 10, 10, 55)
Shedinja == Template("Shedinja", <<"bug", "ghost">>,      1, 90, 45, 40)
\* A template whose base HP is 0 (Stats.hp is an int without lower bound).
Husk     == Template("Husk",     <<"normal">>,           0, 50, 50, 50)

\* One call of simulate_battle: two resolved templates and two levels.
Call(a, b, l1, l2) == [p1 |-> a, p2 |-> b, level1 |-> l1, level2 |-> l2]

Battles ==
    { Call(Pikachu, Ponyta, 50, 50),
      Call(Bulbasaur, Squirtle, 50, 50),
      Call(Squirtle, Bulbasaur, 50, 50),
      Call(Pikachu, Diglett, 50, 1),
      Call(Pikachu, Shedinja, 50, 50),
      Call(Pikachu, Husk, 50, 50),
      Call(Blissey, Chansey, 1, 2) }

(***************************************************************************)
(* Pure functions of the engine.                                           *)
(***************************************************************************)
\* round() in the place of int(): the quotient goes to the nearest integer.
CalculateActualStatRounded(base_stat, level) ==
    ((2 * base_stat * level + 50) \div 100) + 5

\* The "+ 5" lost: a derived stat can be 0.
CalculateActualStatNoOffset(base_stat, level) ==
    (2 * base_stat * level) \div 100

\* _calculate_actual_stat: int((2 * base_stat * level) / 100) + 5
CalculateActualStat(base_stat, level) == ((2 * base_stat * level) \div 100) + 5

\* BattlePokemon.calculate_actual_hp: int((2*base_hp*level)/100) + level + 10
CalculateActualHp(p) ==
    ((2 * p.pokemon.stats.hp * p.level) \div 100) + p.level + 10

\* The chart without the electric-on-ground entry.
TypeChartNoImmunity(attack_type) ==
    CASE attack_type = "fire" ->
           [t \in {"grass", "ice", "bug", "steel"} |-> 20] @@
           [t \in {"fire", "water", "rock", "dragon"} |-> 5]
      [] attack_type = "water" ->
           [t \in {"fire", "ground", "rock"} |-> 20] @@
           [t \in {"water", "grass", "dragon"} |-> 5]
      [] attack_type = "electric" ->
           [t \in {"water", "flying"} |-> 20] @@
           [t \in {"electric", "grass", "dragon"} |-> 5]
      [] attack_type = "grass" ->
           [t \in {"water", "ground", "rock"} |-> 20] @@
           [t \in {"fire", "grass", "poison", "flying", "bug", "dragon",
                   "steel"} |-> 5]

\* self.type_effectiveness, in tenths; rows exist for four attacking types.
TypeChart(attack_type) ==
    CASE attack_type = "fire" ->
           [t \in {"grass", "ice", "bug", "steel"} |-> 20] @@
           [t \in {"fire", "water", "rock", "dragon"} |-> 5]
      [] attack_type = "water" ->
           [t \in {"fire", "ground", "rock"} |-> 20] @@
           [t \in {"water", "grass", "dragon"} |-> 5]
      [] attack_type = "electric" ->
           [t \in {"water", "flying"} |-> 20] @@
           [t \in {"electric", "grass", "dragon"} |-> 5] @@
           [t \in {"ground"} |-> 0]
      [] attack_type = "grass" ->
           [t \in {"water", "ground", "rock"} |-> 20] @@
           [t \in {"fire", "grass", "poison", "flying", "bug", "dragon",
                   "steel"} |-> 5]

ChartRows == {"fire", "water", "electric", "grass"}

\* The lookup as plain indexing, self.type_effectiveness[a][d]: a missing
\* row or entry raises KeyError, written -1.
GetTypeEffectivenessNoDefault(attack_type, defend_type) ==
    IF attack_type \in ChartRows
    THEN IF defend_type \in DOMAIN TypeChart(attack_type)
         THEN TypeChart(attack_type)[defend_type]
         ELSE -1
    ELSE -1

\* _get_type_effectiveness, in tenths (10 is the neutral 1.0)
GetTypeEffectiveness(attack_type, defend_type) ==
    IF attack_type \in ChartRows
    THEN IF defend_type \in DOMAIN TypeChart(attack_type)
         THEN TypeChart(attack_type)[defend_type]
         ELSE 10
    ELSE 10

\* The last-listed type taken instead of the first.
PrimaryTypeLast(p) ==
    IF Len(p.pokemon.types) > 0
    THEN p.pokemon.types[Len(p.pokemon.types)] ELSE "normal"

\* types[0] if types else PokemonType.NORMAL
PrimaryType(p) ==
    IF Len(p.pokemon.types) > 0 THEN p.pokemon.types[1] ELSE "normal"

\* models.BattlePokemon(pokemon=..., level=..., current_hp=...): the
\* constructor keeps a current_hp that is passed in, and status is None.
BattlePokemon(pokemon, level, current_hp) ==
    [pokemon |-> pokemon, level |-> level, current_hp |-> current_hp,
     status |-> "none"]

(***************************************************************************)
(* Random draws of one call of _perform_attack.                            *)
(*   skip    : the paralysis gate, random.random() < 0.25                   *)
(*   range   : random.uniform(0.85, 1.0), in hundredths                    *)
(*   crit    : random.random() < 0.0625                                    *)
(*   inflict : "none" when random.random() >= 0.1 (or no roll is made),    *)
(*             else the status random.choice returned                      *)
(* The random stream offers every value at every attack; Consumed keeps   *)
(* the draws the code makes there and gives the others their default.      *)
(***************************************************************************)
Draws ==
    [skip : BOOLEAN, range : RangeDraws, crit : BOOLEAN,
     inflict : {"none"} \cup possible_statuses]

AttackDraws(attacker, defender) == Draws

\* The draws of d that _perform_attack reads for this attacker and defender:
\* the gate only for a paralysed attacker, nothing else after a skip, the
\* infliction roll only for a defender without status.
Consumed(attacker, defender, d) ==
    IF attacker.status = "paralysis" /\ d.skip
    THEN [skip |-> TRUE, range |-> LowestRange, crit |-> FALSE,
          inflict |-> "none"]
    ELSE [skip |-> FALSE, range |-> d.range, crit |-> d.crit,
          inflict |-> IF defender.status = "none" THEN d.inflict ELSE "none"]

\* The values _perform_attack takes from the generator: the gate for a
\* paralysed attacker; unless skipped, the range and the critical draw, the
\* infliction roll for a defender without status and, when the roll
\* succeeds, random.choice.
DrawCount(attacker, defender, d) ==
    (IF attacker.status = "paralysis" THEN 1 ELSE 0)
    + (IF attacker.status = "paralysis" /\ d.skip
       THEN 0
       ELSE 2 + (IF defender.status # "none" THEN 0
                 ELSE IF d.inflict = "none" THEN 1 ELSE 2))

\* The number of non-default draws in d.
Cost(d) ==
    (IF d.skip THEN 1 ELSE 0) + (IF d.range # LowestRange THEN 1 ELSE 0)
    + (IF d.crit THEN 1 ELSE 0) + (IF d.inflict # "none" THEN 1 ELSE 0)

Affordable(d) ==
    \/ Cost(d) = 0
    \/ turn <= EventTurns /\ events + Cost(d) <= MaxEvents

(***************************************************************************)
(* _perform_attack and its helpers.                                        *)
(***************************************************************************)
\* The "+ 2" of base_damage lost.
DamageNumeratorNoBase(attacker, defender, range) ==
    LET attack_stat == CalculateActualStat(attacker.pokemon.stats.attack,
                                           attacker.level)
    IN  (80 * (2 * attacker.level + 10) * attack_stat)
        * GetTypeEffectiveness(PrimaryType(attacker), PrimaryType(defender))
        * range

\* base_damage *= effectiveness lost: every attack is a neutral one.
DamageNumeratorNoEffectiveness(attacker, defender, range) ==
    LET attack_stat == CalculateActualStat(attacker.pokemon.stats.attack,
                                           attacker.level)
        defense_stat == CalculateActualStat(defender.pokemon.stats.defense,
                                            defender.level)
    IN  (80 * (2 * attacker.level + 10) * attack_stat + 500 * defense_stat)
        * 10 * range

\* base_damage = ((2*level + 10)/250) * (attack_stat/defense_stat) * 80 + 2,
\* times effectiveness, times the range draw, truncated by int(); doubled
\* on a critical hit.  Numerator and denominator of the exact value:
DamageNumerator(attacker, defender, range) ==
    LET attack_stat == CalculateActualStat(attacker.pokemon.stats.attack,
                                           attacker.level)
        defense_stat == CalculateActualStat(defender.pokemon.stats.defense,
                                            defender.level)
    IN  (80 * (2 * attacker.level + 10) * attack_stat + 500 * defense_stat)
        * GetTypeEffectiveness(PrimaryType(attacker), PrimaryType(defender))
        * range

DamageDenominator(defender) ==
    250 * CalculateActualStat(defender.pokemon.stats.defense, defender.level)
    * 10 * 100

Damage(attacker, defender, range, crit) ==
    LET damage == DamageNumerator(attacker, defender, range)
                  \div DamageDenominator(defender)
    IN  IF crit THEN damage * 2 ELSE damage

\* The test `defender.status is None` lost: a roll that succeeds replaces
\* the status the defender has.
MaybeInflictStatusOverwrite(defender, inflict) ==
    IF inflict # "none"
    THEN [defender EXCEPT !.status = inflict]
    ELSE defender

\* _maybe_inflict_status: only a defender without status can receive one.
MaybeInflictStatus(defender, inflict) ==
    IF defender.status = "none" /\ inflict # "none"
    THEN [defender EXCEPT !.status = inflict]
    ELSE defender

\* The early return of the paralysis gate misplaced: a skipped attack deals
\* no damage but still reaches the infliction roll.
PerformAttackSkipStillRolls(attacker, defender, d) ==
    LET damage == IF attacker.status = "paralysis" /\ d.skip
                  THEN 0
                  ELSE Damage(attacker, defender, d.range, d.crit)
        hit == [defender EXCEPT
                  !.current_hp = Max(0, defender.current_hp - damage)]
    IN  [damage |-> damage, defender |-> MaybeInflictStatus(hit, d.inflict)]

\* _perform_attack: the damage returned and the defender afterwards.
PerformAttack(attacker, defender, d) ==
    IF attacker.status = "paralysis" /\ d.skip
    THEN [damage |-> 0, defender |-> defender]
    ELSE LET damage == Damage(attacker, defender, d.range, d.crit)
             hit == [defender EXCEPT
                       !.current_hp = Max(0, defender.current_hp - damage)]
         IN  [damage |-> damage,
              defender |-> MaybeInflictStatus(hit, d.inflict)]

\* The floor of 1 lost: the recurring damage is the bare quotient.
StatusDamageNoFloor(pokemon) ==
    CASE pokemon.status = "burn" -> pokemon.pokemon.stats.hp \div BurnDivisor
      [] pokemon.status = "poison" ->
           pokemon.pokemon.stats.hp \div PoisonDivisor
      [] OTHER -> 0

\* The recurring damage of _apply_status_effects (0: no branch is taken).
StatusDamage(pokemon) ==
    CASE pokemon.status = "burn" ->
           Max(1, pokemon.pokemon.stats.hp \div BurnDivisor)
      [] pokemon.status = "poison" ->
           Max(1, pokemon.pokemon.stats.hp \div PoisonDivisor)
      [] OTHER -> 0

\* The sign of the recurring damage reversed: burn and poison add HP.
ApplyStatusEffectsRestores(pokemon) ==
    IF pokemon.status \in {"burn", "poison"}
    THEN [pokemon EXCEPT
            !.current_hp = pokemon.current_hp + StatusDamage(pokemon)]
    ELSE pokemon

\* _apply_status_effects
ApplyStatusEffects(pokemon) ==
    IF pokemon.status \in {"burn", "poison"}
    THEN [pokemon EXCEPT
            !.current_hp = Max(0, pokemon.current_hp - StatusDamage(pokemon))]
    ELSE pokemon

\* 1 when _apply_status_effects subtracts recurring damage, else 0.
Tick(pokemon) == IF pokemon.status \in {"burn", "poison"} THEN 1 ELSE 0

\* The two HP fields filled from the wrong combatant.
LogEntryHpSwapped(t, attacker, defender, damage) ==
    [turn |-> t,
     attacker |-> attacker.pokemon.name,
     defender |-> defender.pokemon.name,
     move_used |-> "Tackle",
     damage_dealt |-> damage,
     message |-> <<attacker.pokemon.name, "attacks", defender.pokemon.name,
                   "for", damage, "damage!">>,
     attacker_hp |-> defender.current_hp,
     defender_hp |-> attacker.current_hp]

\* The entry numbered from 0: the counter is recorded one too low.
LogEntryZeroBased(t, attacker, defender, damage) ==
    [turn |-> t - 1,
     attacker |-> attacker.pokemon.name,
     defender |-> defender.pokemon.name,
     move_used |-> "Tackle",
     damage_dealt |-> damage,
     message |-> <<attacker.pokemon.name, "attacks", defender.pokemon.name,
                   "for", damage, "damage!">>,
     attacker_hp |-> attacker.current_hp,
     defender_hp |-> defender.current_hp]

\* The BattleLog entry appended after an attack.
LogEntry(t, attacker, defender, damage) ==
    [turn |-> t,
     attacker |-> attacker.pokemon.name,
     defender |-> defender.pokemon.name,
     move_used |-> "Tackle",
     damage_dealt |-> damage,
     message |-> <<attacker.pokemon.name, "attacks", defender.pokemon.name,
                   "for", damage, "damage!">>,
     attacker_hp |-> attacker.current_hp,
     defender_hp |-> defender.current_hp]

(***************************************************************************)
(* simulate_battle.                                                        *)
(***************************************************************************)
\* _determine_turn_order: first is 1 when pokemon1 goes first, 2 when
\* pokemon2 does; heads is the outcome of random.random() < 0.5, and drew
\* tells whether that draw was made (only on a tie).
SpeedOf(p) == CalculateActualStat(p.pokemon.stats.speed, p.level)

\* A comparison reversed: the slower combatant is put first.
DetermineTurnOrderReversed(p1, p2, heads) ==
    IF SpeedOf(p1) < SpeedOf(p2) THEN [first |-> 1, drew |-> FALSE]
    ELSE IF SpeedOf(p2) < SpeedOf(p1) THEN [first |-> 2, drew |-> FALSE]
    ELSE [first |-> IF heads THEN 1 ELSE 2, drew |-> TRUE]

DetermineTurnOrder(p1, p2, heads) ==
    IF SpeedOf(p1) > SpeedOf(p2) THEN [first |-> 1, drew |-> FALSE]
    ELSE IF SpeedOf(p2) > SpeedOf(p1) THEN [first |-> 2, drew |-> FALSE]
    ELSE [first |-> IF heads THEN 1 ELSE 2, drew |-> TRUE]

\* while pokemon1.current_hp > 0 and pokemon2.current_hp > 0
LoopCondition(p1, p2) == p1.current_hp > 0 /\ p2.current_hp > 0

\* if first.current_hp > 0
FirstMayAttack(f, s) == f.current_hp > 0

\* The guard with its first conjunct lost.
SecondMayAttackFirstOnly(f, s) == f.current_hp > 0

\* if second.current_hp > 0 and first.current_hp > 0
SecondMayAttack(f, s) == s.current_hp > 0 /\ f.current_hp > 0

\* The safety check lost: the loop is left only through its condition.
CapNever(t) == FALSE

\* if turn > 50: break   (after turn += 1)
CapReached(t) == t > MaxTurns

\* At least one turn reported, also when the loop never ran.
TotalTurnsAtLeastOne(t) == Max(1, t - 1)

\* The counter returned as it stands, one past the last turn run.
TotalTurnsNotDecremented(t) == t

\* total_turns = turn - 1
TotalTurns(t) == t - 1

\* A draw reported whenever the cap ended the loop, whatever the HP.
OutcomeDrawAtCap(p1, p2, t) ==
    IF t > MaxTurns
    THEN [winner |-> "Draw", loser |-> "Draw", total_turns |-> t - 1]
    ELSE IF p1.current_hp <= 0
    THEN [winner |-> p2.pokemon.name, loser |-> p1.pokemon.name,
          total_turns |-> t - 1]
    ELSE [winner |-> p1.pokemon.name, loser |-> p2.pokemon.name,
          total_turns |-> t - 1]

\* The winner/loser branches after the loop.
Outcome(p1, p2, t) ==
    IF p1.current_hp <= 0
    THEN [winner |-> p2.pokemon.name, loser |-> p1.pokemon.name,
          total_turns |-> TotalTurns(t)]
    ELSE IF p2.current_hp <= 0
    THEN [winner |-> p1.pokemon.name, loser |-> p2.pokemon.name,
          total_turns |-> TotalTurns(t)]
    ELSE [winner |-> "Draw", loser |-> "Draw", total_turns |-> TotalTurns(t)]

\* No engine function has been called on its own.
Idle == [op |-> "idle"]

\* No request has been made to the server, and nothing has come back.
NoCall == [method |-> "none"]
NoResponse == [kind |-> "none"]

NoResult == [winner |-> "", loser |-> "", total_turns |-> -1]

Get(i) == IF i = 1 THEN pokemon1 ELSE pokemon2
Other(i) == 3 - i

\* The combatants kept between calls: a template that fought in the last
\* battle comes back with the HP it had left.
InitialHpCarriedOver(pokemon, level) ==
    IF pokemon = pokemon1.pokemon THEN pokemon1.current_hp
    ELSE IF pokemon = pokemon2.pokemon THEN pokemon2.current_hp
    ELSE pokemon.stats.hp

\* current_hp passed to the BattlePokemon constructor: pokemon_data.stats.hp
InitialHp(pokemon, level) == pokemon.stats.hp

Init ==
    \E b \in Battles :
        /\ pokemon1 = BattlePokemon(b.p1, b.level1, InitialHp(b.p1, b.level1))
        /\ pokemon2 = BattlePokemon(b.p2, b.level2, InitialHp(b.p2, b.level2))
        /\ turn = 1
        /\ battle_log = <<>>
        /\ first = 1
        /\ pc = "loop"
        /\ result = NoResult
        /\ exit = "none"
        /\ coin = FALSE
        /\ attacks = 0
        /\ ticks = <<0, 0>>
        /\ events = 0
        /\ fn = Idle
        /\ rng = 0
        /\ cache = <<>>
        /\ tasks = <<>>
        /\ running = 0
        /\ fetches = <<>>
        /\ call = NoCall
        /\ response = NoResponse

\* The loop condition holds: the turn begins with _determine_turn_order.
StartTurn ==
    /\ pc = "loop"
    /\ turn <= TurnLimit
    /\ LoopCondition(pokemon1, pokemon2)
    /\ \E heads \in BOOLEAN :
         LET order == DetermineTurnOrder(pokemon1, pokemon2, heads)
         IN  /\ first' = order.first
             /\ coin' = order.drew
             /\ rng' = rng + (IF order.drew THEN 1 ELSE 0)
    /\ pc' = "first"
    /\ attacks' = 0
    /\ ticks' = <<0, 0>>
    /\ UNCHANGED <<pokemon1, pokemon2, turn, battle_log, result, exit, events,
                   fn, procVars>>

\* The loop condition fails: control leaves the loop.
LoopExit ==
    /\ pc = "loop"
    /\ ~LoopCondition(pokemon1, pokemon2)
    /\ exit' = "cond"
    /\ pc' = "finish"
    /\ UNCHANGED <<pokemon1, pokemon2, turn, battle_log, first, result, coin,
                   attacks, ticks, events, fn, rng, procVars>>

\* One attack of combatant a on the other one, the log entry, and the two
\* calls of _apply_status_effects (first, then second) that follow it.
Exchange(a, d) ==
    LET r == PerformAttack(Get(a), Get(Other(a)), d)
        attacker == Get(a)
        defender == r.defender
        newA == ApplyStatusEffects(attacker)
        newD == ApplyStatusEffects(defender)
    IN  /\ battle_log' = Append(battle_log,
                                LogEntry(turn, attacker, defender, r.damage))
        /\ pokemon1' = IF a = 1 THEN newA ELSE newD
        /\ pokemon2' = IF a = 2 THEN newA ELSE newD
        /\ ticks' = IF a = 1
                    THEN <<ticks[1] + Tick(attacker), ticks[2] + Tick(defender)>>
                    ELSE <<ticks[1] + Tick(defender), ticks[2] + Tick(attacker)>>
        /\ attacks' = attacks + 1
        /\ events' = events + Cost(Consumed(Get(a), Get(Other(a)), d))
        /\ rng' = rng + DrawCount(Get(a), Get(Other(a)), d)

\* if first.current_hp > 0: the first combatant attacks (the guard holds
\* whenever the loop condition let the turn begin).
FirstAttack ==
    /\ pc = "first"
    /\ IF FirstMayAttack(Get(first), Get(Other(first)))
       THEN \E d \in AttackDraws(Get(first), Get(Other(first))) :
              /\ Affordable(Consumed(Get(first), Get(Other(first)), d))
              /\ Exchange(first, d)
       ELSE UNCHANGED <<pokemon1, pokemon2, battle_log, attacks, ticks, events,
                        rng>>
    /\ pc' = "second"
    /\ UNCHANGED <<turn, first, result, exit, coin, fn, procVars>>

\* if second.current_hp > 0 and first.current_hp > 0: the second attacks.
SecondAttack ==
    /\ pc = "second"
    /\ SecondMayAttack(Get(first), Get(Other(first)))
    /\ \E d \in AttackDraws(Get(Other(first)), Get(first)) :
         /\ Affordable(Consumed(Get(Other(first)), Get(first), d))
         /\ Exchange(Other(first), d)
    /\ pc' = "endturn"
    /\ UNCHANGED <<turn, first, result, exit, coin, fn, procVars>>

\* The guard of the second attack fails.
SecondSkipped ==
    /\ pc = "second"
    /\ ~SecondMayAttack(Get(first), Get(Other(first)))
    /\ pc' = "endturn"
    /\ UNCHANGED <<pokemon1, pokemon2, turn, battle_log, first, result, exit,
                   coin, attacks, ticks, events, fn, rng, procVars>>

\* turn += 1, then the safety check that breaks out of the loop.
EndTurn ==
    /\ pc = "endturn"
    /\ turn' = turn + 1
    /\ IF CapReached(turn + 1)
       THEN exit' = "cap" /\ pc' = "finish"
       ELSE exit' = exit /\ pc' = "loop"
    /\ UNCHANGED <<pokemon1, pokemon2, battle_log, first, result, coin,
                   attacks, ticks, events, fn, rng, procVars>>

\* Determine the winner and return the BattleResult.
Finish ==
    /\ pc = "finish"
    /\ result' = Outcome(pokemon1, pokemon2, turn)
    /\ pc' = "done"
    /\ UNCHANGED <<pokemon1, pokemon2, turn, battle_log, first, exit, coin,
                   attacks, ticks, events, fn, rng, procVars>>

Next ==
    \/ StartTurn
    \/ LoopExit
    \/ FirstAttack
    \/ SecondAttack
    \/ SecondSkipped
    \/ EndTurn
    \/ Finish

Spec == Init /\ [][Next]_vars

\* simulate_battle is one synchronous computation: it keeps running.
FairSpec == Spec /\ WF_vars(Next)

(***************************************************************************)
(* Single calls of the engine's functions.  FnSpec applies one function    *)
(* once to arguments drawn from bounded sets and records the arguments and *)
(* the value returned in fn; no battle runs.                               *)
(***************************************************************************)
\* Base HP values of the combatants handed to _apply_status_effects.
FnMaxBaseHp == 40

\* Base stats and levels handed to _calculate_actual_stat.
FnMaxBaseStat == 60
FnMaxLevel == 60

\* Levels of the combatants handed to _perform_attack.
FnLevels == {1, 50}

\* A template whose type list came out empty (pokemon_data.py:73-77 keeps
\* only the type names PokemonType knows).
Untyped == Template("Untyped", <<>>, 40, 50, 50, 50)

FnTemplates == {Pikachu, Diglett, Bulbasaur, Squirtle, Shedinja, Untyped}

\* A combatant in the middle of a battle.
Combatant(pokemon, level, current_hp, status) ==
    [BattlePokemon(pokemon, level, current_hp) EXCEPT !.status = status]

FnAttackers ==
    { Combatant(t, l, t.stats.hp, st) :
        t \in FnTemplates, l \in FnLevels, st \in {"none", "paralysis"} }

FnDefenders ==
    UNION { { Combatant(t, l, 1, st), Combatant(t, l, t.stats.hp, st) } :
              t \in FnTemplates, l \in FnLevels, st \in Statuses }

FnSufferers ==
    UNION { { Combatant(Template("Sufferer", <<"normal">>, h, 50, 50, 50),
                        l, c, st) : c \in 1..h } :
              h \in 1..FnMaxBaseHp, l \in FnLevels, st \in Statuses }

FnInit ==
    /\ pokemon1 = BattlePokemon(Pikachu, 50, InitialHp(Pikachu, 50))
    /\ pokemon2 = BattlePokemon(Diglett, 50, InitialHp(Diglett, 50))
    /\ turn = 1
    /\ battle_log = <<>>
    /\ first = 1
    /\ pc = "fn"
    /\ result = NoResult
    /\ exit = "none"
    /\ coin = FALSE
    /\ attacks = 0
    /\ ticks = <<0, 0>>
    /\ events = 0
    /\ fn = Idle
    /\ rng = 0
    /\ cache = <<>>
    /\ tasks = <<>>
    /\ running = 0
    /\ fetches = <<>>
    /\ call = NoCall
    /\ response = NoResponse

battleVars == <<pokemon1, pokemon2, turn, battle_log, first, pc, result, exit,
                coin, attacks, ticks, events, rng, procVars>>

\* damage = self._perform_attack(first, second) and the BattleLog built
\* from its outcome (lines 76-86), for one attacker, defender and draws.
FnAttack ==
    /\ fn = Idle
    /\ \E a \in FnAttackers, d \in FnDefenders : \E dr \in AttackDraws(a, d) :
         LET r == PerformAttack(a, d, dr)
         IN  fn' = [op |-> "attack", attacker |-> a, defender |-> d,
                    draws |-> dr, damage |-> r.damage, after |-> r.defender,
                    entry |-> LogEntry(turn, a, r.defender, r.damage)]
    /\ UNCHANGED battleVars

\* self._apply_status_effects(pokemon)
FnStatus ==
    /\ fn = Idle
    /\ \E p \in FnSufferers :
         fn' = [op |-> "status", pokemon |-> p,
                after |-> ApplyStatusEffects(p)]
    /\ UNCHANGED battleVars

\* self._get_type_effectiveness(attack_type, defend_type)
FnEffectiveness ==
    /\ fn = Idle
    /\ \E a \in PokemonType, d \in PokemonType :
         fn' = [op |-> "effectiveness", attack_type |-> a, defend_type |-> d,
                value |-> GetTypeEffectiveness(a, d)]
    /\ UNCHANGED battleVars

\* self._calculate_actual_stat(base_stat, level)
FnStat ==
    /\ fn = Idle
    /\ \E b \in 0..FnMaxBaseStat, l \in 1..FnMaxLevel :
         fn' = [op |-> "stat", base_stat |-> b, level |-> l,
                value |-> CalculateActualStat(b, l)]
    /\ UNCHANGED battleVars

FnNext ==
    \/ FnAttack
    \/ FnStatus
    \/ FnEffectiveness
    \/ FnStat

FnSpec == FnInit /\ [][FnNext]_vars

(***************************************************************************)
(* Calls of simulate_battle on the event loop of one process.  Each task   *)
(* is one coroutine of simulate_battle; the battle variables are the frame *)
(* of the coroutine that is past its lookups, pc = "idle" when there is    *)
(* none.  The fetcher's cache and the generator of module random belong to *)
(* the process.                                                            *)
(***************************************************************************)
\* The coroutines of the process.
TaskIds == {1, 2}

\* What PokeAPI answers: the names it knows, each with its template.
Catalog ==
    [pikachu |-> Pikachu, shedinja |-> Shedinja, diglett |-> Diglett,
     blissey |-> Blissey, chansey |-> Chansey]

\* get_pokemon returned None.
NoTemplate == Template("", <<>>, 0, 0, 0, 0)

\* The arguments of one call of simulate_battle.
Request(n1, n2, l1, l2) ==
    [pokemon1_name |-> n1, pokemon2_name |-> n2, level1 |-> l1, level2 |-> l2]

Requests ==
    { Request("pikachu", "shedinja", 50, 50),
      Request("pikachu", "diglett", 50, 40),
      Request("pikachu", "missingno", 50, 50),
      Request("missingno", "shedinja", 50, 50),
      Request("pikachu", "shedinja", 0, 50) }

\* A coroutine that has not run yet: it stands before its first lookup.
NewTask(r) ==
    [request |-> r, pc |-> "lookup1", pokemon1_data |-> NoTemplate,
     pokemon2_data |-> NoTemplate, first_draw |-> -1, result |-> NoResult]

\* get_pokemon: the cached template; else, when the request is answered
\* (reachable) and the name is known, the fetched one; else None.
GetPokemon(c, cache_key, reachable) ==
    IF cache_key \in DOMAIN c THEN c[cache_key]
    ELSE IF reachable /\ cache_key \in DOMAIN Catalog THEN Catalog[cache_key]
    ELSE NoTemplate

\* The outcome stored whatever it is: None is cached after a failure.
CacheAfterKeepsFailure(c, cache_key, reachable) ==
    IF cache_key \in DOMAIN c THEN c
    ELSE IF reachable /\ cache_key \in DOMAIN Catalog
    THEN c @@ (cache_key :> Catalog[cache_key])
    ELSE c @@ (cache_key :> NoTemplate)

\* self.cache[cache_key] = pokemon, after a fetch that succeeded.
CacheAfter(c, cache_key, reachable) ==
    IF cache_key \notin DOMAIN c /\ reachable /\ cache_key \in DOMAIN Catalog
    THEN c @@ (cache_key :> Catalog[cache_key])
    ELSE c

\* Only the first template tested.
NotFoundFirstOnly(d1, d2) == d1 = NoTemplate

\* if not pokemon1_data or not pokemon2_data
NotFound(d1, d2) == d1 = NoTemplate \/ d2 = NoTemplate

\* The statement a task stands at.
Position(t) == IF tasks[t].pc = "battle" THEN pc ELSE tasks[t].pc

\* An await in the body of the loop: the coroutine can be suspended at the
\* end of every turn.
AwaitsInLoop(point) == point \in {"lookup1", "lookup2", "endturn"}

\* The statements of simulate_battle that are awaits (lines 49 and 50).
Awaits(point) == point \in {"lookup1", "lookup2"}

\* The event loop runs task t when it runs no other coroutine.
MayRun(t) == running = 0 \/ running = t

LoopInit ==
    /\ tasks \in [TaskIds -> { NewTask(r) : r \in Requests }]
    /\ running = 0
    /\ fetches = <<>>
    /\ call = NoCall
    /\ response = NoResponse
    /\ cache = [k \in {} |-> NoTemplate]
    /\ rng = 0
    /\ pokemon1 = BattlePokemon(NoTemplate, 0, 0)
    /\ pokemon2 = BattlePokemon(NoTemplate, 0, 0)
    /\ turn = 0
    /\ battle_log = <<>>
    /\ first = 1
    /\ pc = "idle"
    /\ result = NoResult
    /\ exit = "none"
    /\ coin = FALSE
    /\ attacks = 0
    /\ ticks = <<0, 0>>
    /\ events = 0
    /\ fn = Idle

frameVars == <<pokemon1, pokemon2, turn, battle_log, first, pc, result, exit,
               coin, attacks, ticks, events>>

\* The running coroutine stands at an await and is suspended there.
Yield ==
    /\ running # 0
    /\ Awaits(Position(running))
    /\ running' = 0
    /\ UNCHANGED <<frameVars, fn, rng, cache, tasks, ioVars>>

\* pokemon1_data = await get_pokemon(pokemon1_name)
Lookup1(t) ==
    /\ tasks[t].pc = "lookup1"
    /\ MayRun(t)
    /\ \E reachable \in BOOLEAN :
         LET cache_key == tasks[t].request.pokemon1_name
         IN  /\ tasks' = [tasks EXCEPT
                   ![t].pokemon1_data = GetPokemon(cache, cache_key, reachable),
                   ![t].pc = "lookup2"]
             /\ cache' = CacheAfter(cache, cache_key, reachable)
    /\ running' = t
    /\ UNCHANGED <<frameVars, fn, rng, ioVars>>

\* pokemon2_data = await get_pokemon(pokemon2_name)
Lookup2(t) ==
    /\ tasks[t].pc = "lookup2"
    /\ MayRun(t)
    /\ \E reachable \in BOOLEAN :
         LET cache_key == tasks[t].request.pokemon2_name
         IN  /\ tasks' = [tasks EXCEPT
                   ![t].pokemon2_data = GetPokemon(cache, cache_key, reachable),
                   ![t].pc = "check"]
             /\ cache' = CacheAfter(cache, cache_key, reachable)
    /\ running' = t
    /\ UNCHANGED <<frameVars, fn, rng, ioVars>>

\* Lines 52-61: ValueError when a lookup returned None; else the two
\* BattlePokemon are constructed, the log is empty and turn is 1.
Check(t) ==
    /\ tasks[t].pc = "check"
    /\ MayRun(t)
    /\ LET r == tasks[t].request
           d1 == tasks[t].pokemon1_data
           d2 == tasks[t].pokemon2_data
       IN  IF NotFound(d1, d2)
           THEN /\ tasks' = [tasks EXCEPT ![t].pc = "raised"]
                /\ running' = 0
                /\ UNCHANGED frameVars
           ELSE /\ pokemon1' = BattlePokemon(d1, r.level1,
                                             InitialHp(d1, r.level1))
                /\ pokemon2' = BattlePokemon(d2, r.level2,
                                             InitialHp(d2, r.level2))
                /\ battle_log' = <<>>
                /\ turn' = 1
                /\ pc' = "loop"
                /\ first' = 1
                /\ result' = NoResult
                /\ exit' = "none"
                /\ coin' = FALSE
                /\ attacks' = 0
                /\ ticks' = <<0, 0>>
                /\ events' = 0
                /\ tasks' = [tasks EXCEPT ![t].pc = "battle",
                                          ![t].first_draw = rng]
                /\ running' = t
    /\ UNCHANGED <<fn, rng, cache, ioVars>>

\* return BattleResult(...): the coroutine ends and its frame is dropped.
Return(t) ==
    /\ tasks[t].pc = "battle"
    /\ pc = "done"
    /\ tasks' = [tasks EXCEPT ![t].pc = "returned", ![t].result = result]
    /\ running' = 0
    /\ pc' = "idle"
    /\ UNCHANGED <<pokemon1, pokemon2, turn, battle_log, first, result, exit,
                   coin, attacks, ticks, events, fn, rng, cache, ioVars>>

LoopNext ==
    \/ Yield
    \/ \E t \in TaskIds : Lookup1(t)
    \/ \E t \in TaskIds : Lookup2(t)
    \/ \E t \in TaskIds : Check(t)
    \/ \E t \in TaskIds : Return(t)
    \/ StartTurn
    \/ LoopExit
    \/ FirstAttack
    \/ SecondAttack
    \/ SecondSkipped
    \/ EndTurn
    \/ Finish

LoopSpec == LoopInit /\ [][LoopNext]_vars

(***************************************************************************)
(* Calls of PokemonDataFetcher.get_pokemon on the event loop of one        *)
(* process, one step per stretch of code between two awaits.  (Under       *)
(* LoopSpec a lookup is one step: what a battle sees of it is its outcome.)*)
(***************************************************************************)
\* The get_pokemon coroutines of the process.
FetchIds == {1, 2, 3}

\* The identifiers the callers pass.
Identifiers == {"pikachu", "Pikachu", "shedinja", "missingno"}

\* str.lower() on the strings of the model.
Lower(s) ==
    CASE s = "Pikachu" -> "pikachu"
      [] s = "Fire" -> "fire"
      [] s = "WATER" -> "water"
      [] OTHER -> s

\* A coroutine of get_pokemon that has not run yet.
NewFetch(n) ==
    [name_or_id |-> n, pc |-> "call", requests |-> 0, value |-> NoTemplate]

\* cache_key = str(name_or_id).lower()
CacheKey(c) == Lower(fetches[c].name_or_id)

FetchInit ==
    /\ fetches \in [FetchIds -> { NewFetch(n) : n \in Identifiers }]
    /\ cache = [k \in {} |-> NoTemplate]
    /\ tasks = <<>>
    /\ running = 0
    /\ call = NoCall
    /\ response = NoResponse
    /\ rng = 0
    /\ pokemon1 = BattlePokemon(NoTemplate, 0, 0)
    /\ pokemon2 = BattlePokemon(NoTemplate, 0, 0)
    /\ turn = 0
    /\ battle_log = <<>>
    /\ first = 1
    /\ pc = "idle"
    /\ result = NoResult
    /\ exit = "none"
    /\ coin = FALSE
    /\ attacks = 0
    /\ ticks = <<0, 0>>
    /\ events = 0
    /\ fn = Idle

fetchFrame == <<frameVars, fn, rng, tasks, running, call, response>>

\* Lines 24-35: the cached template is returned; else the request for
\* /pokemon/{name_or_id} is sent and the coroutine awaits the response.
FetchBegin(c) ==
    /\ fetches[c].pc = "call"
    /\ IF CacheKey(c) \in DOMAIN cache
       THEN fetches' = [fetches EXCEPT ![c].pc = "returned",
                                       ![c].value = cache[CacheKey(c)]]
       ELSE fetches' = [fetches EXCEPT ![c].pc = "pokemon",
                                       ![c].requests = 1]
    /\ UNCHANGED <<cache, fetchFrame>>

\* Lines 35-40: the first response; on success the request for the species
\* is sent and awaited, on a failure an except clause returns None.
FetchPokemon(c) ==
    /\ fetches[c].pc = "pokemon"
    /\ \E reachable \in BOOLEAN :
         /\ IF reachable /\ CacheKey(c) \in DOMAIN Catalog
            THEN fetches' = [fetches EXCEPT ![c].pc = "species",
                                            ![c].requests = 2]
            ELSE fetches' = [fetches EXCEPT ![c].pc = "returned",
                                            ![c].value = NoTemplate]
         /\ cache' = IF reachable /\ CacheKey(c) \in DOMAIN Catalog THEN cache
                     ELSE CacheAfter(cache, CacheKey(c), FALSE)
    /\ UNCHANGED fetchFrame

\* Lines 40-50: the second response; on success the template is converted,
\* stored under cache_key and returned, on a failure None is returned.
FetchSpecies(c) ==
    /\ fetches[c].pc = "species"
    /\ \E reachable \in BOOLEAN :
         /\ fetches' = [fetches EXCEPT
                ![c].pc = "returned",
                ![c].value = IF reachable THEN Catalog[CacheKey(c)]
                             ELSE NoTemplate]
         /\ cache' = CacheAfter(cache, CacheKey(c), reachable)
    /\ UNCHANGED fetchFrame

FetchNext ==
    \/ \E c \in FetchIds : FetchBegin(c)
    \/ \E c \in FetchIds : FetchPokemon(c)
    \/ \E c \in FetchIds : FetchSpecies(c)

FetchSpec == FetchInit /\ [][FetchNext]_vars

(***************************************************************************)
(* PokemonServer (pokemon_env/src/server.py).  One behaviour under         *)
(* ServerSpec is one request to the server: list_resources, read_resource, *)
(* list_tools or call_tool.  The simulate_battle tool runs the coroutine   *)
(* of simulate_battle modelled above as task 1.  A JSON document is kept   *)
(* as the record it encodes; a value of an argument map carries its Python *)
(* type.                                                                   *)
(***************************************************************************)
\* Python values found in an argument map.
Str(s) == [type |-> "str", str |-> s]
Num(i) == [type |-> "int", int |-> i]
None == [type |-> "NoneType"]

\* arguments.get(key, default)
DictGet(arguments, key, default) ==
    IF key \in DOMAIN arguments THEN arguments[key] ELSE default

\* not value
Falsy(value) ==
    CASE value.type = "str" -> value.str = ""
      [] value.type = "int" -> value.int = 0
      [] OTHER -> TRUE

\* list_resources: the URIs of the resources it lists, in order.
ListedResources == <<"pokemon://database", "pokemon://pokedex">>

\* list_tools: the names of the tools it lists, in order.
ListedTools == <<"get_pokemon", "simulate_battle", "get_type_effectiveness">>

Returned(body) == [kind |-> "returned", body |-> body]
Raised(exception) == [kind |-> "raised", exception |-> exception]

\* The error document of call_tool; message is the tuple of the parts of
\* its text.
Error(message) == Returned([error |-> message])

\* The branch of the second resource lost.
ReadResourceDatabaseOnly(uri) ==
    IF uri = "pokemon://database"
    THEN Returned([name |-> "Pokemon Database"])
    ELSE Raised("ValueError")

\* read_resource(uri): the document of the resource, told apart here by one
\* of its fields; ValueError for any other URI.
ReadResource(uri) ==
    IF uri = "pokemon://database"
    THEN Returned([name |-> "Pokemon Database"])
    ELSE IF uri = "pokemon://pokedex"
    THEN Returned([description |-> "Digital Pokemon encyclopedia"])
    ELSE Raised("ValueError")

\* The chart of the tool without its zero entry.
ToolTypeChartNoImmunity(attacking_type) ==
    CASE attacking_type = "fire" ->
           [t \in {"grass", "ice", "bug", "steel"} |-> 20] @@
           [t \in {"water", "rock", "fire", "dragon"} |-> 5]
      [] attacking_type = "water" ->
           [t \in {"fire", "ground", "rock"} |-> 20] @@
           [t \in {"grass", "water", "dragon"} |-> 5]
      [] attacking_type = "electric" ->
           [t \in {"water", "flying"} |-> 20] @@
           [t \in {"grass", "electric", "dragon"} |-> 5]
      [] attacking_type = "grass" ->
           [t \in {"water", "ground", "rock"} |-> 20] @@
           [t \in {"fire", "grass", "poison", "flying", "bug", "dragon",
                   "steel"} |-> 5]
      [] OTHER -> [t \in {} |-> 10]

\* type_chart of the get_type_effectiveness tool, in tenths; the row of a
\* string that is no key of it is the empty dict of .get(attacking_type, {}).
ToolTypeChart(attacking_type) ==
    CASE attacking_type = "fire" ->
           [t \in {"grass", "ice", "bug", "steel"} |-> 20] @@
           [t \in {"water", "rock", "fire", "dragon"} |-> 5]
      [] attacking_type = "water" ->
           [t \in {"fire", "ground", "rock"} |-> 20] @@
           [t \in {"grass", "water", "dragon"} |-> 5]
      [] attacking_type = "electric" ->
           [t \in {"water", "flying"} |-> 20] @@
           [t \in {"grass", "electric", "dragon"} |-> 5] @@
           [t \in {"ground"} |-> 0]
      [] attacking_type = "grass" ->
           [t \in {"water", "ground", "rock"} |-> 20] @@
           [t \in {"fire", "grass", "poison", "flying", "bug", "dragon",
                   "steel"} |-> 5]
      [] OTHER -> [t \in {} |-> 10]

\* type_chart.get(attacking_type, {}).get(defending_type, 1.0)
ToolEffectiveness(attacking_type, defending_type) ==
    DictGet(ToolTypeChart(attacking_type), defending_type, 10)

\* effect_text
EffectText(effectiveness) ==
    CASE effectiveness = 20 -> "Super effective! (2x damage)"
      [] effectiveness = 5 -> "Not very effective... (0.5x damage)"
      [] effectiveness = 0 -> "No effect! (0x damage)"
      [] OTHER -> "Normal effectiveness (1x damage)"

\* The get_type_effectiveness branch of call_tool.  .lower() is called on
\* whatever .get returned, outside any try: a value that is no string has
\* no such method and the AttributeError leaves call_tool.
GetTypeEffectivenessTool(arguments) ==
    LET a == DictGet(arguments, "attacking_type", Str(""))
        d == DictGet(arguments, "defending_type", Str(""))
    IN  IF a.type # "str" \/ d.type # "str" THEN Raised("AttributeError")
        ELSE IF Lower(a.str) = "" \/ Lower(d.str) = ""
        THEN Error(<<"Both attacking and defending types are required">>)
        ELSE Returned(
               [attacking_type |-> Lower(a.str),
                defending_type |-> Lower(d.str),
                effectiveness_multiplier |->
                    ToolEffectiveness(Lower(a.str), Lower(d.str)),
                effect |-> EffectText(
                    ToolEffectiveness(Lower(a.str), Lower(d.str)))])

\* The level simulate_battle takes when the caller passes none.
DefaultLevel == 50

\* simulate_pokemon_battle(pokemon1, pokemon2): the call of simulate_battle
\* it makes passes the two names only.
SimulatePokemonBattle(pokemon1_name, pokemon2_name) ==
    Request(pokemon1_name, pokemon2_name, DefaultLevel, DefaultLevel)

\* Entries of the battle log the simulate_battle tool shows.
ShownEntries == 10

\* The whole log shown.
ShownAll(log) == log

\* result.battle_log[:10]
Shown(log) ==
    SubSeq(log, 1, IF Len(log) < ShownEntries THEN Len(log) ELSE ShownEntries)

\* One entry of "battle_log" in the summary; in remaining_hp a later key
\* replaces an equal earlier one.
SummaryEntry(log) ==
    [turn |-> log.turn,
     action |-> <<log.attacker, "used", log.move_used, "on", log.defender>>,
     damage |-> log.damage_dealt,
     result |-> log.message,
     remaining_hp |-> (log.defender :> log.defender_hp) @@
                      (log.attacker :> log.attacker_hp)]

\* battle_summary, built from the BattleResult and its battle_log.
BattleSummary(res, log) ==
    [battle_result |-> [winner |-> res.winner, loser |-> res.loser,
                        total_turns |-> res.total_turns],
     battle_log |-> [i \in 1..Len(Shown(log)) |-> SummaryEntry(Shown(log)[i])],
     note |-> <<"Showing first", ShownEntries, "of", Len(log),
                "total battle actions">>]

\* pokemon_info
PokemonInfo(pokemon) ==
    [name |-> pokemon.name, types |-> pokemon.types, stats |-> pokemon.stats]

\* The requests of the model.
Uris ==
    {"pokemon://database", "pokemon://pokedex", "pokemon://moves",
     "pokemon://Database", ""}

TypeStrings == PokemonType \cup {"Fire", "WATER", "shadow", ""}

NoArguments == [k \in {} |-> None]

TypeArguments ==
    { ("attacking_type" :> Str(a)) @@ ("defending_type" :> Str(d)) :
          a \in TypeStrings, d \in TypeStrings }
    \cup { NoArguments,
           ("attacking_type" :> Str("fire")),
           ("attacking_type" :> None) @@ ("defending_type" :> Str("water")),
           ("attacking_type" :> Str("fire")) @@ ("defending_type" :> None) }

PokemonArguments ==
    { ("name_or_id" :> v) :
          v \in {Str("pikachu"), Str("Pikachu"), Str("missingno"), Str(""),
                 None} }
    \cup { NoArguments }

Names(pokemon1_name, pokemon2_name) ==
    ("pokemon1" :> pokemon1_name) @@ ("pokemon2" :> pokemon2_name)

BattleArguments ==
    { Names(Str("pikachu"), Str("shedinja")),
      Names(Str("pikachu"), Str("shedinja")) @@ ("level1" :> Num(5)),
      Names(Str("pikachu"), Str("shedinja")) @@ ("level1" :> Num(50))
          @@ ("level2" :> Num(100)),
      Names(Str("blissey"), Str("chansey")),
      Names(Str("pikachu"), Str("missingno")),
      Names(Str("pikachu"), Str("")),
      Names(None, Str("pikachu")),
      ("pokemon1" :> Str("pikachu")),
      NoArguments }

CallTool(name, arguments) ==
    [method |-> "call_tool", name |-> name, arguments |-> arguments]

Calls ==
    { [method |-> "list_resources"], [method |-> "list_tools"] }
    \cup { [method |-> "read_resource", uri |-> u] : u \in Uris }
    \cup { CallTool("get_pokemon", a) : a \in PokemonArguments }
    \cup { CallTool("simulate_battle", a) : a \in BattleArguments }
    \cup { CallTool("get_type_effectiveness", a) : a \in TypeArguments }
    \cup { CallTool("get_move", NoArguments),
           CallTool("Get_Pokemon", ("name_or_id" :> Str("pikachu"))) }

ServerInit ==
    /\ call \in Calls
    /\ response = NoResponse
    /\ fetches = <<>>
    /\ tasks = <<>>
    /\ running = 0
    /\ cache = [k \in {} |-> NoTemplate]
    /\ rng = 0
    /\ pokemon1 = BattlePokemon(NoTemplate, 0, 0)
    /\ pokemon2 = BattlePokemon(NoTemplate, 0, 0)
    /\ turn = 0
    /\ battle_log = <<>>
    /\ first = 1
    /\ pc = "idle"
    /\ result = NoResult
    /\ exit = "none"
    /\ coin = FALSE
    /\ attacks = 0
    /\ ticks = <<0, 0>>
    /\ events = 0
    /\ fn = Idle

\* The request has been made and nothing has been done for it yet.
Pending(method) ==
    call.method = method /\ response = NoResponse /\ tasks = <<>>

\* The branch of call_tool taken for a tool name.
Branch(name) ==
    IF name \in {"get_pokemon", "simulate_battle", "get_type_effectiveness"}
    THEN name
    ELSE "unknown"

serverFrame == <<frameVars, fn, rng, cache, tasks, running, fetches, call>>

\* await server.list_resources()
ListResources ==
    /\ Pending("list_resources")
    /\ response' = Returned(ListedResources)
    /\ UNCHANGED serverFrame

\* await server.read_resource(uri)
ReadResourceCall ==
    /\ Pending("read_resource")
    /\ response' = ReadResource(call.uri)
    /\ UNCHANGED serverFrame

\* await server.list_tools()
ListTools ==
    /\ Pending("list_tools")
    /\ response' = Returned(ListedTools)
    /\ UNCHANGED serverFrame

\* call_tool, name == "get_pokemon" (lines 122-159).
GetPokemonTool ==
    /\ Pending("call_tool")
    /\ Branch(call.name) = "get_pokemon"
    /\ LET name_or_id == DictGet(call.arguments, "name_or_id", None)
       IN  IF Falsy(name_or_id)
           THEN /\ response' = Error(<<"Pokemon name or ID is required">>)
                /\ cache' = cache
           ELSE \E reachable \in BOOLEAN :
                  LET pokemon == GetPokemon(cache, Lower(name_or_id.str),
                                            reachable)
                  IN  /\ cache' = CacheAfter(cache, Lower(name_or_id.str),
                                             reachable)
                      /\ response' =
                           IF pokemon = NoTemplate
                           THEN Error(<<"Pokemon", name_or_id.str,
                                        "not found">>)
                           ELSE Returned(PokemonInfo(pokemon))
    /\ UNCHANGED <<frameVars, fn, rng, tasks, running, fetches, call>>

\* call_tool, name == "simulate_battle" (lines 161-169): the names are
\* tested and simulate_pokemon_battle is awaited.
SimulateBattleTool ==
    /\ Pending("call_tool")
    /\ Branch(call.name) = "simulate_battle"
    /\ LET pokemon1_name == DictGet(call.arguments, "pokemon1", None)
           pokemon2_name == DictGet(call.arguments, "pokemon2", None)
       IN  IF Falsy(pokemon1_name) \/ Falsy(pokemon2_name)
           THEN /\ response' = Error(<<"Both Pokemon names are required">>)
                /\ tasks' = tasks
           ELSE /\ tasks' = (1 :> NewTask(SimulatePokemonBattle(
                                   pokemon1_name.str, pokemon2_name.str)))
                /\ response' = response
    /\ UNCHANGED <<frameVars, fn, rng, cache, running, fetches, call>>

\* Lines 171-191: simulate_pokemon_battle returned and the summary is built.
SimulateBattleSummary ==
    /\ call.method = "call_tool"
    /\ response = NoResponse
    /\ tasks # <<>>
    /\ tasks[1].pc = "returned"
    /\ response' = Returned(BattleSummary(tasks[1].result, battle_log))
    /\ UNCHANGED serverFrame

\* Lines 193-194: simulate_pokemon_battle raised and the except clause
\* returns the error document.
SimulateBattleExcept ==
    /\ call.method = "call_tool"
    /\ response = NoResponse
    /\ tasks # <<>>
    /\ tasks[1].pc = "raised"
    /\ response' = Error(<<"Error simulating battle:",
                           "Could not fetch Pokemon data">>)
    /\ UNCHANGED serverFrame

\* call_tool, name == "get_type_effectiveness" (lines 196-228).
TypeEffectivenessTool ==
    /\ Pending("call_tool")
    /\ Branch(call.name) = "get_type_effectiveness"
    /\ response' = GetTypeEffectivenessTool(call.arguments)
    /\ UNCHANGED serverFrame

\* call_tool, the final else (lines 230-231).
UnknownTool ==
    /\ Pending("call_tool")
    /\ Branch(call.name) = "unknown"
    /\ response' = Error(<<"Unknown tool:", call.name>>)
    /\ UNCHANGED serverFrame

ServerNext ==
    \/ ListResources
    \/ ReadResourceCall
    \/ ListTools
    \/ GetPokemonTool
    \/ SimulateBattleTool
    \/ SimulateBattleSummary
    \/ SimulateBattleExcept
    \/ TypeEffectivenessTool
    \/ UnknownTool
    \/ Yield
    \/ \E t \in DOMAIN tasks : Lookup1(t)
    \/ \E t \in DOMAIN tasks : Lookup2(t)
    \/ \E t \in DOMAIN tasks : Check(t)
    \/ \E t \in DOMAIN tasks : Return(t)
    \/ StartTurn
    \/ LoopExit
    \/ FirstAttack
    \/ SecondAttack
    \/ SecondSkipped
    \/ EndTurn
    \/ Finish

ServerSpec == ServerInit /\ [][ServerNext]_vars

(***************************************************************************)
(* Properties.                                                             *)
(***************************************************************************)
Done == pc = "done"

\* The derived speeds differ, and Faster is the combatant with the higher one.
SpeedsDiffer == SpeedOf(pokemon1) # SpeedOf(pokemon2)
Faster == IF SpeedOf(pokemon1) > SpeedOf(pokemon2) THEN pokemon1 ELSE pokemon2

\* The derived maximum HP of the combatant called n.
MaxHpOf(n) ==
    IF n = pokemon1.pokemon.name
    THEN CalculateActualHp(pokemon1) ELSE CalculateActualHp(pokemon2)

\* Entry i opens its turn in the log.
OpensTurn(i) == i = 1 \/ battle_log[i - 1].turn # battle_log[i].turn

\* C1: every call of simulate_battle with two resolved combatants
\* terminates: the loop is eventually left and a BattleResult returned, and
\* the turn counter never goes beyond one past the cap of 50.
C1_Terminates == [](turn <= MaxTurns + 1) /\ <>Done

\* C1 witness: a battle that returned after the cap ended its loop, the
\* latest point at which a battle ends.
C1_Witness == Done /\ exit = "cap" /\ turn = MaxTurns + 1

\* C2: the returned total_turns lies in 0..50 and no log entry carries a
\* turn number above 50.
C2_TurnBound ==
    /\ Done => result.total_turns \in 0..MaxTurns
    /\ \A i \in 1..Len(battle_log) : battle_log[i].turn <= MaxTurns

\* C2 witness: a returned battle whose fiftieth turn ran and was logged.
C2_Witness ==
    /\ Done
    /\ result.total_turns = MaxTurns
    /\ \E i \in 1..Len(battle_log) : battle_log[i].turn = MaxTurns

\* C3: in every reachable state and in every HP snapshot of the log, each
\* combatant has 0 <= current_hp <= max_hp, max_hp being the derived maximum
\* floor(2*base_hp*level/100) + level + 10, for every positive level.
C3_HpWithinDerivedMax ==
    /\ 0 <= pokemon1.current_hp
    /\ pokemon1.current_hp <= CalculateActualHp(pokemon1)
    /\ 0 <= pokemon2.current_hp
    /\ pokemon2.current_hp <= CalculateActualHp(pokemon2)
    /\ \A i \in 1..Len(battle_log) :
         /\ 0 <= battle_log[i].attacker_hp
         /\ battle_log[i].attacker_hp <= MaxHpOf(battle_log[i].attacker)
         /\ 0 <= battle_log[i].defender_hp
         /\ battle_log[i].defender_hp <= MaxHpOf(battle_log[i].defender)

\* C4: in every returned result whose winner is not "Draw", exactly one
\* combatant is at 0 HP, the other is above 0, and the winner is the one
\* above 0 (the loser the one at 0).
C4_OutcomeConsistency ==
    (Done /\ result.winner # "Draw") =>
        \/ /\ pokemon1.current_hp > 0 /\ pokemon2.current_hp = 0
           /\ result.winner = pokemon1.pokemon.name
           /\ result.loser = pokemon2.pokemon.name
        \/ /\ pokemon2.current_hp > 0 /\ pokemon1.current_hp = 0
           /\ result.winner = pokemon2.pokemon.name
           /\ result.loser = pokemon1.pokemon.name

\* C5: whenever both combatants are at 0 HP when the loop terminates, the
\* result is winner = "Draw" and loser = "Draw", and the turn in which it
\* happened is counted in total_turns.
C5_DoubleKnockoutIsDraw ==
    (Done /\ pokemon1.current_hp = 0 /\ pokemon2.current_hp = 0) =>
        /\ result.winner = "Draw"
        /\ result.loser = "Draw"
        /\ Len(battle_log) > 0
        /\ result.total_turns = battle_log[Len(battle_log)].turn

C8_FasterAttacksFirst ==
    /\ (pc \in {"first", "second", "endturn"} /\ SpeedsDiffer) =>
          Get(first) = Faster
    /\ coin => ~SpeedsDiffer
    /\ \A i \in 1..Len(battle_log) :
         (OpensTurn(i) /\ SpeedsDiffer) =>
             battle_log[i].attacker = Faster.pokemon.name

\* C8 witness: the second-named combatant is the faster one and has just
\* made the opening attack of a turn.
C8_Witness ==
    /\ pc = "second"
    /\ SpeedOf(pokemon2) > SpeedOf(pokemon1)
    /\ attacks = 1
    /\ battle_log[Len(battle_log)].attacker = pokemon2.pokemon.name

\* The log part of C9: at most two entries per turn, the second by the
\* defender of the first, and every attacker above 0 HP.
C9_LogShape ==
    /\ attacks \in 0..2
    /\ \A i \in 1..Len(battle_log) :
         /\ battle_log[i].attacker_hp > 0
         /\ (i + 1 <= Len(battle_log)
               /\ battle_log[i].turn = battle_log[i + 1].turn) =>
                 /\ OpensTurn(i)
                 /\ battle_log[i + 1].attacker = battle_log[i].defender
                 /\ battle_log[i + 1].defender = battle_log[i].attacker

\* The step part of C9: an attack is logged only while both combatants are
\* above 0 HP, the first of a turn by the turn's first combatant and the
\* second by the other one.
C9_AttackStep ==
    (Len(battle_log') > Len(battle_log)) =>
        /\ pokemon1.current_hp > 0 /\ pokemon2.current_hp > 0
        /\ battle_log'[Len(battle_log')].attacker =
              (IF attacks = 0 THEN Get(first) ELSE Get(Other(first))).pokemon.name
        /\ battle_log'[Len(battle_log')].turn = turn

\* C9: each turn consists of at most two attacks, the first by the turn's
\* first combatant and the second by the other one, the second only if both
\* combatants are above 0 HP when it is due; no combatant at 0 HP attacks
\* and every log entry has attacker_hp > 0.
C9_TurnShape == []C9_LogShape /\ [][C9_AttackStep]_vars

\* C9 witness: the second attack of a turn was withheld because a combatant
\* was at 0 HP after the first one.
C9_Witness ==
    /\ pc = "endturn"
    /\ attacks = 1
    /\ (pokemon1.current_hp = 0 \/ pokemon2.current_hp = 0)

\* C10: burn and poison damage is applied to a combatant exactly once per
\* turn and only after both attacks of the turn have been attempted: none
\* between the first and the second attack, never two ticks in one turn.
C10_StatusOncePerTurn ==
    /\ ticks[1] <= 1
    /\ ticks[2] <= 1
    /\ pc = "second" => ticks = <<0, 0>>

\* The combatants are as simulate_battle has just constructed them.
AtBattleStart == pc = "loop" /\ turn = 1 /\ battle_log = <<>>

\* C11: at battle start each combatant's current_hp equals
\* actual_max_hp(base_hp, level) = floor(2*base_hp*level/100) + level + 10,
\* for every template and every level passed to simulate_battle.
C11_StartsAtDerivedMaxHp ==
    AtBattleStart =>
        /\ pokemon1.current_hp = CalculateActualHp(pokemon1)
        /\ pokemon2.current_hp = CalculateActualHp(pokemon2)

\* The recurring damage C12 states: the quotient is taken of the derived
\* maximum HP.
ClaimedStatusDamage(p) ==
    CASE p.status = "burn" -> Max(1, CalculateActualHp(p) \div 16)
      [] p.status = "poison" -> Max(1, CalculateActualHp(p) \div 8)
      [] OTHER -> 0

\* C12: each application of a status effect removes max(1, floor(max_hp/16))
\* HP for burn and max(1, floor(max_hp/8)) HP for poison, max_hp being the
\* derived maximum HP, clamped at 0; paralysis and no status remove nothing.
C12_StatusDamageOfDerivedMaxHp ==
    fn.op = "status" =>
        fn.after.current_hp =
            Max(0, fn.pokemon.current_hp - ClaimedStatusDamage(fn.pokemon))

\* C13: whenever burn or poison damage is applied to a combatant above 0
\* HP, at least 1 HP is subtracted, also for HP values below 16 (burn) and
\* below 8 (poison), so current_hp strictly decreases at each application.
C13_StatusDamageAtLeastOne ==
    (fn.op = "status" /\ fn.pokemon.status \in {"burn", "poison"}
                      /\ fn.pokemon.current_hp > 0) =>
        /\ fn.after.current_hp < fn.pokemon.current_hp
        /\ \/ fn.after.current_hp = 0
           \/ fn.pokemon.current_hp - fn.after.current_hp >= 1
        /\ fn.after.status = fn.pokemon.status

\* C13 witness: poison applied to a combatant whose base HP is below 8
\* took exactly 1 HP.
C13_Witness ==
    /\ fn.op = "status"
    /\ fn.pokemon.status = "poison"
    /\ fn.pokemon.pokemon.stats.hp < PoisonDivisor
    /\ fn.pokemon.current_hp > 1
    /\ fn.after.current_hp = fn.pokemon.current_hp - 1

\* The attack recorded in fn was skipped by the paralysis gate.
FnSkipped == fn.attacker.status = "paralysis" /\ fn.draws.skip

\* C14: when the attacker's status is paralysis and the gate draw is below
\* 0.25 the attack is skipped: the damage returned is 0, the defender's
\* current_hp and status are as before whatever the range, critical and
\* infliction draws would have been, and the log entry of the attacker is
\* still built, with damage_dealt = 0.
C14_ParalysisSkip ==
    (fn.op = "attack" /\ FnSkipped) =>
        /\ fn.damage = 0
        /\ fn.after = fn.defender
        /\ fn.entry.attacker = fn.attacker.pokemon.name
        /\ fn.entry.defender = fn.defender.pokemon.name
        /\ fn.entry.damage_dealt = 0
        /\ fn.entry.defender_hp = fn.defender.current_hp

\* C14 witness: a skipped attack on a defender without status while the
\* random stream held a critical hit and a status to inflict.
C14_Witness ==
    /\ fn.op = "attack"
    /\ FnSkipped
    /\ fn.draws.crit
    /\ fn.draws.inflict = "burn"
    /\ fn.defender.status = "none"
    /\ fn.entry.damage_dealt = 0

\* C15: an attack whose multiplier is 0.0 (the attacker's first type is
\* electric, the defender's is ground) deals exactly 0 damage and leaves
\* the defender's current_hp unchanged, for every level and every range and
\* critical draw.
C15_ImmunityDealsZero ==
    (fn.op = "attack" /\ Len(fn.attacker.pokemon.types) > 0
                      /\ Len(fn.defender.pokemon.types) > 0
                      /\ fn.attacker.pokemon.types[1] = "electric"
                      /\ fn.defender.pokemon.types[1] = "ground") =>
        /\ fn.damage = 0
        /\ fn.after.current_hp = fn.defender.current_hp
        /\ fn.entry.damage_dealt = 0

\* C15 witness: an electric attacker at level 50 hit a ground defender of
\* level 1 with the highest range draw and a critical hit, for 0 damage.
C15_Witness ==
    /\ fn.op = "attack"
    /\ fn.attacker.pokemon.name = "Pikachu"
    /\ fn.defender.pokemon.name = "Diglett"
    /\ fn.attacker.level = 50 /\ fn.defender.level = 1
    /\ ~FnSkipped
    /\ fn.draws.crit /\ fn.draws.range = 100
    /\ fn.damage = 0

\* The combatant p with the type list ts, everything else the same.
WithTypes(p, ts) == [p EXCEPT !.pokemon.types = ts]

\* The multiplier of the attack recorded in fn, in tenths.
FnMultiplier ==
    GetTypeEffectiveness(PrimaryType(fn.attacker), PrimaryType(fn.defender))

\* The damage of the attack recorded in fn had its multiplier been 1.0:
\* the same stats, levels, range draw and critical outcome.
FnNeutralDamage ==
    Damage(WithTypes(fn.attacker, <<"normal">>),
           WithTypes(fn.defender, <<"normal">>), fn.draws.range, fn.draws.crit)

\* C16 as stated: with the range draw and the critical outcome held fixed
\* and stats and levels identical, the integer damage with a 2.0 multiplier
\* is exactly twice the integer damage with a 1.0 multiplier.
C16_ExactlyDouble ==
    (fn.op = "attack" /\ ~FnSkipped /\ FnMultiplier = 20) =>
        fn.damage = 2 * FnNeutralDamage

\* C16 amended: the damage with a 2.0 multiplier is at least twice the
\* damage with a 1.0 multiplier and exceeds the double by at most 1 (the
\* fraction int() cuts off the neutral value is doubled before the cut);
\* on a critical hit the excess is 0 or 2.
C16_DoubleUpToTruncation ==
    (fn.op = "attack" /\ ~FnSkipped /\ FnMultiplier = 20) =>
        IF fn.draws.crit
        THEN fn.damage \in {2 * FnNeutralDamage, 2 * FnNeutralDamage + 2}
        ELSE fn.damage \in {2 * FnNeutralDamage, 2 * FnNeutralDamage + 1}

\* C16 witness: a super-effective attack without critical hit dealt one
\* more than twice the neutral damage.
C16_Witness ==
    /\ fn.op = "attack"
    /\ ~FnSkipped
    /\ FnMultiplier = 20
    /\ ~fn.draws.crit
    /\ fn.damage = 2 * FnNeutralDamage + 1

\* The combatant whose attack is due, and the current HP of the one called n.
Attacking == IF attacks = 0 THEN first ELSE Other(first)
HpOf(n) ==
    IF n = pokemon1.pokemon.name
    THEN pokemon1.current_hp ELSE pokemon2.current_hp

\* This step appends the log entry of the attack that the draws d produce,
\* and with d the paralysis gate does not skip the attack.
LogsUnskipped(d) ==
    LET r == PerformAttack(Get(Attacking), Get(Other(Attacking)), d)
    IN  /\ Len(battle_log') = Len(battle_log) + 1
        /\ ~(Get(Attacking).status = "paralysis" /\ d.skip)
        /\ battle_log'[Len(battle_log')] =
              LogEntry(turn, Get(Attacking), r.defender, r.damage)

\* The multiplier of the attack that is due, in tenths.
DueMultiplier ==
    GetTypeEffectiveness(PrimaryType(Get(Attacking)),
                         PrimaryType(Get(Other(Attacking))))

\* The attack just logged dealt at least 1 damage and knocked out a
\* defender that stood at 1 HP.
HurtsAndKnocksOut ==
    /\ battle_log'[Len(battle_log')].damage_dealt >= 1
    /\ Get(Other(Attacking)).current_hp = 1 =>
          battle_log'[Len(battle_log')].defender_hp = 0

\* An attack that brought its defender to 0 HP is the last of the battle,
\* and the battle ends in its turn.
KnockoutEndsBattle(i) ==
    /\ i = Len(battle_log)
    /\ Done => result.total_turns = battle_log[i].turn

C18_EffectivenessTotal ==
    fn.op = "effectiveness" =>
        /\ fn.value \in {0, 5, 10, 20}
        /\ fn.attack_type \notin ChartRows => fn.value = 10
        /\ fn.attack_type \in ChartRows =>
              IF fn.defend_type \in DOMAIN TypeChart(fn.attack_type)
              THEN fn.value = TypeChart(fn.attack_type)[fn.defend_type]
              ELSE fn.value = 10

\* C18 witness: a lookup for an attacking type without a row returned 1.0.
C18_Witness ==
    /\ fn.op = "effectiveness"
    /\ fn.attack_type = "ghost"
    /\ fn.defend_type = "psychic"
    /\ fn.value = 10

\* The first-listed type of p alone, and normal for an empty list.
FirstTypeOnly(p) ==
    IF Len(p.pokemon.types) > 0 THEN <<p.pokemon.types[1]>> ELSE <<"normal">>

\* The damage of the attack recorded in fn when the combatants carry the
\* type lists ta and td.
FnDamageWithTypes(ta, td) ==
    Damage(WithTypes(fn.attacker, ta), WithTypes(fn.defender, td),
           fn.draws.range, fn.draws.crit)

\* C19: the damage depends on the combatants' types only through the
\* first-listed type of each: with the same draws, the attack deals the same
\* damage whatever secondary type either combatant has or lacks, and a
\* combatant with an empty type list is treated as type normal.
C19_OnlyPrimaryTypes ==
    (fn.op = "attack" /\ ~FnSkipped) =>
        LET ta == FirstTypeOnly(fn.attacker)
            td == FirstTypeOnly(fn.defender)
        IN  /\ fn.damage = FnDamageWithTypes(ta, td)
            /\ \A x \in PokemonType :
                  /\ fn.damage = FnDamageWithTypes(ta \o <<x>>, td)
                  /\ fn.damage = FnDamageWithTypes(ta, td \o <<x>>)

\* C19 witness: an attacker with two types hit a defender with an empty
\* type list.
C19_Witness ==
    /\ fn.op = "attack"
    /\ ~FnSkipped
    /\ fn.attacker.pokemon.types = <<"grass", "poison">>
    /\ fn.defender.pokemon.types = <<>>
    /\ fn.damage > 0

\* The status of combatant n changes in this step only from None to one of
\* the three statuses, and only while n is the defender of an attack that is
\* logged and that the paralysis gate did not skip.
StatusStep(n, before, after) ==
    after # before =>
        /\ before = "none"
        /\ after \in possible_statuses
        /\ Attacking = Other(n)
        /\ \E d \in Draws : LogsUnskipped(d)

\* C20: a combatant's status is always one of None, burn, poison and
\* paralysis; a status is assigned only to the defender of a non-skipped
\* attack and only when the defender has none, so a combatant that has a
\* status keeps exactly that status until the battle ends.
C20_StatusSetOnce ==
    /\ [](pokemon1.status \in Statuses /\ pokemon2.status \in Statuses)
    /\ [][/\ StatusStep(1, pokemon1.status, pokemon1'.status)
           /\ StatusStep(2, pokemon2.status, pokemon2'.status)]_vars

\* C20 witness: the battle returned with both combatants carrying a status,
\* each its own, after later attacks on them.
C20_Witness ==
    /\ Done
    /\ pokemon1.status # "none"
    /\ pokemon2.status # "none"
    /\ pokemon1.status # pokemon2.status
    /\ result.total_turns > EventTurns

\* The derived defense of p, the divisor of base_damage.
DefenseOf(p) == CalculateActualStat(p.pokemon.stats.defense, p.level)

\* C23: for resolved templates with non-negative base stats and levels of
\* at least 1, simulate_battle never fails after the lookups: the divisor
\* of the damage formula is at least 5 for either defender, every status
\* is one the status code handles, the call has a next step in every state
\* before it returns, and it returns a BattleResult.
C23_NeverFails ==
    /\ DefenseOf(pokemon1) >= 5
    /\ DefenseOf(pokemon2) >= 5
    /\ SpeedOf(pokemon1) >= 5 /\ SpeedOf(pokemon2) >= 5
    /\ pokemon1.status \in Statuses /\ pokemon2.status \in Statuses
    /\ ~Done => ENABLED Next
    /\ Done => /\ result.total_turns >= 0
               /\ result.winner \in {pokemon1.pokemon.name,
                                     pokemon2.pokemon.name, "Draw"}

\* C23 witness: a battle returned in which a defender's derived defense
\* was exactly 5 (base 5 at level 2) and that defender was attacked.
C23_Witness ==
    /\ Done
    /\ DefenseOf(pokemon2) = 5
    /\ pokemon2.level = 2
    /\ \E i \in 1..Len(battle_log) :
          /\ battle_log[i].defender = pokemon2.pokemon.name
          /\ battle_log[i].damage_dealt > 0

\* C24: total_turns is the number of turns that ran: the turn number of
\* the last log entry, and 0 with an empty log when no turn ran; it is not
\* one more than the turn in which the battle ended, and the turn of a
\* knockout is counted.
C24_TotalTurnsIsLastTurn ==
    Done =>
        /\ result.total_turns = turn - 1
        /\ IF battle_log = <<>>
           THEN result.total_turns = 0
           ELSE result.total_turns = battle_log[Len(battle_log)].turn
        /\ \A i \in 1..Len(battle_log) :
              battle_log[i].turn \in 1..result.total_turns

\* C24 witness: a knockout in a turn after the first one, and total_turns
\* is that turn.
C24_Witness ==
    /\ Done
    /\ exit = "cond"
    /\ Len(battle_log) > 0
    /\ battle_log[Len(battle_log)].defender_hp = 0
    /\ battle_log[Len(battle_log)].turn >= 2
    /\ result.total_turns = battle_log[Len(battle_log)].turn

\* The entries of the log made in turn t.
EntriesOfTurn(t) == { i \in 1..Len(battle_log) : battle_log[i].turn = t }

\* The log in the next state is this log, or this log with one entry added
\* at its end.
LogGrowsAtEnd ==
    \/ battle_log' = battle_log
    \/ /\ Len(battle_log') = Len(battle_log) + 1
       /\ SubSeq(battle_log', 1, Len(battle_log)) = battle_log

\* Turn numbers start at 1 and never decrease; no turn number is passed
\* over, so every turn up to the last one has an entry; no three entries
\* share a turn; the last turn logged is total_turns; no damage is negative.
LogOrdered ==
    /\ Len(battle_log) > 0 => battle_log[1].turn = 1
    /\ \A i \in 1..Len(battle_log) :
          /\ battle_log[i].damage_dealt >= 0
          /\ i < Len(battle_log) =>
                /\ battle_log[i].turn <= battle_log[i + 1].turn
                /\ battle_log[i + 1].turn <= battle_log[i].turn + 1
          /\ i + 2 <= Len(battle_log) =>
                battle_log[i + 2].turn > battle_log[i].turn
    /\ (Done /\ Len(battle_log) > 0) =>
          battle_log[Len(battle_log)].turn = result.total_turns
    /\ (Done /\ Len(battle_log) = 0) => result.total_turns = 0

\* C25: the battle log is append-only and ordered: every step leaves the
\* log as it is or adds entries at its end, turn numbers start at 1 and
\* never decrease along the log, every turn from 1 to total_turns has one or
\* two entries, and every damage_dealt is at least 0.
C25_LogAppendOnly == []LogOrdered /\ [][LogGrowsAtEnd]_vars

\* C25 witness: a returned battle whose log has a turn with two entries
\* and ends with a turn of a single one.
C25_Witness ==
    /\ Done
    /\ result.total_turns >= 2
    /\ Cardinality(EntriesOfTurn(1)) = 2
    /\ Cardinality(EntriesOfTurn(result.total_turns)) = 1

\* The entry a step appends records the state right after the attack.
EntryRecordsAttack ==
    Len(battle_log') = Len(battle_log) + 1 =>
        LET entry == battle_log'[Len(battle_log')]
        IN  /\ entry.attacker = Get(Attacking).pokemon.name
            /\ entry.defender = Get(Other(Attacking)).pokemon.name
            /\ entry.defender_hp =
                  Max(0, Get(Other(Attacking)).current_hp - entry.damage_dealt)
            /\ entry.attacker_hp = Get(Attacking).current_hp
            /\ entry.move_used = "Tackle"

\* C26: each log entry records the state right after its attack:
\* defender_hp is max(0, the defender's current_hp before the attack minus
\* damage_dealt), attacker_hp is the attacker's current_hp at the attack,
\* and move_used is "Tackle".
C26_EntryRecordsAttack == [][EntryRecordsAttack]_vars

\* C26 witness: the first entry of a log records more damage than the
\* defender had HP, a defender_hp of 0 and the attacker's starting HP.
C26_Witness ==
    /\ Len(battle_log) = 1
    /\ battle_log[1].defender = pokemon2.pokemon.name
    /\ battle_log[1].damage_dealt > InitialHp(pokemon2.pokemon, pokemon2.level)
    /\ battle_log[1].defender_hp = 0
    /\ battle_log[1].attacker_hp = InitialHp(pokemon1.pokemon, pokemon1.level)
    /\ battle_log[1].move_used = "Tackle"

\* The derived attack, defense and speed of combatant p.
DerivedStats(p) ==
    <<CalculateActualStat(p.pokemon.stats.attack, p.level),
      CalculateActualStat(p.pokemon.stats.defense, p.level),
      CalculateActualStat(p.pokemon.stats.speed, p.level)>>

\* C27: _calculate_actual_stat(base, level) is floor(2*base*level/100) + 5
\* for every non-negative base stat and every positive level, that is, the
\* value less 5 is the largest q with 100*q <= 2*base*level; and the
\* derived attack, defense and speed of a combatant are the same after an
\* attack on it and after a status effect as before.
C27_ActualStatFormula ==
    /\ fn.op = "stat" =>
          LET q == fn.value - 5
          IN  /\ 100 * q <= 2 * fn.base_stat * fn.level
              /\ 2 * fn.base_stat * fn.level < 100 * (q + 1)
              /\ fn.value >= 5
    /\ fn.op = "attack" => DerivedStats(fn.after) = DerivedStats(fn.defender)
    /\ fn.op = "status" => DerivedStats(fn.after) = DerivedStats(fn.pokemon)

\* C27 witness: a call whose quotient 2*base*level/100 is 5.5, so that
\* truncation and rounding differ: the value is 5 + 5.
C27_Witness ==
    /\ fn.op = "stat"
    /\ fn.base_stat = 55
    /\ fn.level = 5
    /\ fn.value = 10

\* A lookup of task t has returned None.
LookupFailed(t) ==
    \/ /\ tasks[t].pc \in {"lookup2", "check", "raised", "battle", "returned"}
       /\ tasks[t].pokemon1_data = NoTemplate
    \/ /\ tasks[t].pc \in {"check", "raised", "battle", "returned"}
       /\ tasks[t].pokemon2_data = NoTemplate

\* The step that takes task t from its check to the raised error touches
\* neither the frame of a battle nor the generator.
RaisesBeforeBattle(t) ==
    (tasks[t].pc = "check" /\ LookupFailed(t) /\ tasks'[t] # tasks[t]) =>
        /\ tasks'[t].pc = "raised"
        /\ UNCHANGED <<pokemon1, pokemon2, turn, battle_log, result, rng>>

\* C21: if the catalog lookup of either requested creature fails,
\* simulate_battle raises an error before any combatant is constructed and
\* before any log entry is created: the call never enters a battle, draws
\* no random value and returns no BattleResult.
C21_LookupFailureRaises ==
    /\ [](\A t \in TaskIds :
            LookupFailed(t) =>
              /\ tasks[t].pc \in {"lookup2", "check", "raised"}
              /\ tasks[t].first_draw = -1
              /\ tasks[t].result = NoResult)
    /\ [][\A t \in TaskIds : RaisesBeforeBattle(t)]_vars

\* C21 witness: a call whose first lookup returned a template and whose
\* second returned None has raised, while the other call has returned a
\* result.
C21_Witness ==
    \E t \in TaskIds, u \in TaskIds :
        /\ tasks[t].pc = "raised"
        /\ tasks[t].pokemon1_data # NoTemplate
        /\ tasks[t].pokemon2_data = NoTemplate
        /\ tasks[u].pc = "returned"

\* C22: a call of simulate_battle with level1 <= 0 or level2 <= 0 is
\* rejected at combatant construction: it runs no turn, produces no log
\* entry and returns no BattleResult.
C22_NonPositiveLevelRejected ==
    \A t \in TaskIds :
        (tasks[t].request.level1 <= 0 \/ tasks[t].request.level2 <= 0) =>
            tasks[t].pc \notin {"battle", "returned"}

\* The combatant simulate_battle constructs for the name n at level l.
Fresh(n, l) ==
    [pokemon |-> Catalog[n], level |-> l, current_hp |-> Catalog[n].stats.hp,
     status |-> "none"]

\* The step that takes task t past its check starts the battle afresh.
StartsAfresh(t) ==
    (tasks[t].pc = "check" /\ tasks'[t].pc = "battle") =>
        /\ pokemon1' = Fresh(tasks[t].request.pokemon1_name,
                             tasks[t].request.level1)
        /\ pokemon2' = Fresh(tasks[t].request.pokemon2_name,
                             tasks[t].request.level2)
        /\ turn' = 1
        /\ battle_log' = <<>>

\* A cached template stays in the cache as it is.
CacheKept ==
    \A k \in DOMAIN cache : k \in DOMAIN cache' /\ cache'[k] = cache[k]

\* C28: no battle state persists across calls: a battle never modifies the
\* cached templates, and after any earlier battles a new battle starts with
\* both combatants at their initial HP, status None, turn counter 1 and an
\* empty log.
C28_NoStateAcrossCalls ==
    /\ [](\A k \in DOMAIN cache : cache[k] = Catalog[k])
    /\ [][CacheKept /\ \A t \in TaskIds : StartsAfresh(t)]_vars

\* C28 witness: a battle stands at its start with the same request as a
\* battle that has returned, and the loser of that one is at its full HP.
C28_Witness ==
    \E t \in TaskIds, u \in TaskIds :
        /\ tasks[u].pc = "returned"
        /\ tasks[t].pc = "battle"
        /\ tasks[t].request = tasks[u].request
        /\ pc = "loop" /\ turn = 1 /\ battle_log = <<>>
        /\ tasks[u].result.loser = pokemon2.pokemon.name
        /\ pokemon2.current_hp = pokemon2.pokemon.stats.hp
        /\ pokemon2.current_hp > 0
        /\ pokemon1.status = "none" /\ pokemon2.status = "none"

\* Task t has completed both lookups and has not ended.
PastLookups(t) == tasks[t].pc \in {"check", "battle"}

\* C29: once both lookups of a call have completed, the call runs up to
\* its return without a suspension point: it is the coroutine the event
\* loop is executing until it ends, at most one call is past its lookups,
\* and no step changes another call while one is.
C29_NoSuspensionInBattle ==
    /\ [](\A t \in TaskIds :
            PastLookups(t) =>
              /\ running = t
              /\ \A u \in TaskIds \ {t} : ~PastLookups(u))
    /\ [](pc # "idle" => \E t \in TaskIds : tasks[t].pc = "battle")
    /\ [][\A t \in TaskIds :
            PastLookups(t) =>
              \A u \in TaskIds \ {t} : tasks'[u] = tasks[u]]_vars

\* C29 witness: one call is in the middle of a turn while the other one is
\* suspended between its two lookups.
C29_Witness ==
    \E t \in TaskIds, u \in TaskIds :
        /\ tasks[t].pc = "battle"
        /\ pc = "second"
        /\ running = t
        /\ tasks[u].pc = "lookup2"

\* C30: each battle draws its randomness from its own stream: the first
\* value a battle consumes is the first of its stream, whether or not
\* another battle ran before it.
C30_OwnRandomStream ==
    \A t \in TaskIds :
        tasks[t].pc \in {"battle", "returned"} => tasks[t].first_draw = 0

\* The HP entry i of the log records for the combatant called n.
SnapshotOf(i, n) ==
    IF battle_log[i].attacker = n
    THEN battle_log[i].attacker_hp ELSE battle_log[i].defender_hp

\* The HP snapshots of either combatant never rise along the log.
SnapshotsNeverRise ==
    \A i \in 1..(Len(battle_log) - 1) :
        \A n \in {pokemon1.pokemon.name, pokemon2.pokemon.name} :
            SnapshotOf(i + 1, n) <= SnapshotOf(i, n)

\* C38: during a battle no operation increases a combatant's current_hp:
\* for either combatant current_hp never rises from one step to the next,
\* and the attacker_hp and defender_hp snapshots of one combatant never
\* rise along the log.
C38_HpNeverIncreases ==
    /\ []SnapshotsNeverRise
    /\ [][/\ pokemon1'.current_hp <= pokemon1.current_hp
          /\ pokemon2'.current_hp <= pokemon2.current_hp]_vars

\* C38 witness: a battle has returned in which a combatant that carried
\* burn or poison lost HP between two of its snapshots without being hit.
C38_Witness ==
    /\ Done
    /\ \E i \in 1..(Len(battle_log) - 1) :
         /\ battle_log[i + 1].attacker = battle_log[i].defender
         /\ battle_log[i + 1].attacker_hp < battle_log[i].defender_hp
         /\ battle_log[i + 1].attacker_hp > 0

\* Call c finds its cache key in the cache.
CacheHit(c) == fetches[c].pc = "call" /\ CacheKey(c) \in DOMAIN cache

\* The step in which call c returns None.
ReturnsNone(c) ==
    /\ fetches[c].pc # "returned"
    /\ fetches'[c].pc = "returned"
    /\ fetches'[c].value = NoTemplate

\* C36: get_pokemon with an identifier whose lowercased form is in the cache
\* returns the cached template, issues no remote request and leaves the cache
\* unchanged; a lookup that fails returns None and leaves the cache
\* unchanged; no entry is ever removed, replaced, or None.
C36_CacheHitAndFailure ==
    /\ [][\A c \in DOMAIN fetches :
            /\ (CacheHit(c) /\ fetches'[c] # fetches[c]) =>
                 /\ fetches'[c].pc = "returned"
                 /\ fetches'[c].value = cache[CacheKey(c)]
                 /\ fetches'[c].requests = 0
                 /\ cache' = cache
            /\ ReturnsNone(c) => cache' = cache]_vars
    /\ [][CacheKept]_vars
    /\ [](\A k \in DOMAIN cache : cache[k] # NoTemplate)

\* A call under another spelling was served from the cache, a call for an
\* unknown name got None after its request, and the cache holds one entry.
C36_Witness ==
    \E c, d, e \in DOMAIN fetches :
        /\ fetches[c].name_or_id = "pikachu" /\ fetches[c].requests = 2
        /\ fetches[d].name_or_id = "Pikachu" /\ fetches[d].requests = 0
        /\ fetches[d].pc = "returned" /\ fetches[d].value = Pikachu
        /\ fetches[e].name_or_id = "missingno" /\ fetches[e].requests = 1
        /\ fetches[e].pc = "returned" /\ fetches[e].value = NoTemplate
        /\ DOMAIN cache = {"pikachu"}

\* C37: an identifier is fetched from the remote catalog at most once: of the
\* calls for one identifier that the catalog answered with a template, at
\* most one issued remote requests, the others being served from the cache.
C37_FetchedOnce ==
    \A c, d \in DOMAIN fetches :
        (c # d /\ fetches[c].name_or_id = fetches[d].name_or_id) =>
            ~(/\ fetches[c].requests = 2 /\ fetches[c].value # NoTemplate
              /\ fetches[d].requests = 2 /\ fetches[d].value # NoTemplate)

\* The request is a call of the tool `name` that has been answered.
Answered(name) ==
    /\ call.method = "call_tool"
    /\ call.name = name
    /\ response # NoResponse

\* The level the tool call asks for: the argument, 50 when it is absent.
LevelArgument(key) == DictGet(call.arguments, key, Num(50)).int

\* C31: the simulate_battle tool runs the battle with the first combatant at
\* its argument level1 and the second at level2, 50 where none is given.
C31_LevelsFromArguments ==
    (call.method = "call_tool" /\ tasks # <<>> /\ tasks[1].pc = "battle") =>
        /\ pokemon1.level = LevelArgument("level1")
        /\ pokemon2.level = LevelArgument("level2")

Range(f) == { f[i] : i \in DOMAIN f }

\* C32: every listed resource URI is read without an error, read_resource
\* raises ValueError for every URI not listed, and a call of a listed tool
\* is never answered with "Unknown tool".
C32_ListedIsServed ==
    /\ \A uri \in Range(ListedResources) : ReadResource(uri).kind = "returned"
    /\ \A name \in Range(ListedTools) : Branch(name) = name
    /\ (call.method = "read_resource" /\ response # NoResponse) =>
          IF call.uri \in Range(ListedResources)
          THEN response.kind = "returned"
          ELSE response = Raised("ValueError")
    /\ \A name \in Range(ListedTools) :
          Answered(name) =>
              response # Error(<<"Unknown tool:", call.name>>)

\* The second listed resource has been read, and its document came back.
C32_Witness ==
    /\ call.method = "read_resource"
    /\ call.uri = ListedResources[2]
    /\ response.kind = "returned"

\* The strings the tool looks up, when both arguments are strings.
Looked(key) == Lower(call.arguments[key].str)

\* C33: the get_type_effectiveness tool and the battle engine agree: for
\* types of PokemonType the tool's multiplier is the one
\* _get_type_effectiveness gives, and a string that is no type yields 1.0.
C33_ToolAgreesWithEngine ==
    (/\ Answered("get_type_effectiveness")
     /\ response.kind = "returned"
     /\ "effectiveness_multiplier" \in DOMAIN response.body) =>
        response.body.effectiveness_multiplier =
            IF /\ Looked("attacking_type") \in PokemonType
               /\ Looked("defending_type") \in PokemonType
            THEN GetTypeEffectiveness(Looked("attacking_type"),
                                      Looked("defending_type"))
            ELSE 10

\* The tool was asked about electric against ground and answered 0.
C33_Witness ==
    /\ Answered("get_type_effectiveness")
    /\ call.arguments = ("attacking_type" :> Str("electric")) @@
                        ("defending_type" :> Str("ground"))
    /\ response.kind = "returned"
    /\ response.body.effectiveness_multiplier = 0
    /\ GetTypeEffectiveness("electric", "ground") = 0

\* C34: call_tool reports every failure as a value: whatever the tool name
\* and the argument map, it returns and never raises.
C34_NeverRaises ==
    call.method = "call_tool" => response.kind # "raised"

\* C35: the simulate_battle tool returns the first min(10, n) entries of the
\* n-entry battle log in their order, its note reports n, and its
\* battle_result is the winner, loser and total_turns of the BattleResult.
C35_FirstTenEntries ==
    (/\ Answered("simulate_battle")
     /\ response.kind = "returned"
     /\ "battle_result" \in DOMAIN response.body) =>
        LET shown == response.body.battle_log
            n == Len(battle_log)
        IN  /\ Len(shown) = IF n < 10 THEN n ELSE 10
            /\ \A i \in 1..Len(shown) :
                 /\ shown[i].turn = battle_log[i].turn
                 /\ shown[i].damage = battle_log[i].damage_dealt
                 /\ shown[i].result = battle_log[i].message
                 /\ shown[i].action[1] = battle_log[i].attacker
                 /\ shown[i].action[5] = battle_log[i].defender
                 /\ shown[i].remaining_hp[battle_log[i].defender] =
                        battle_log[i].defender_hp
            /\ response.body.note[4] = n
            /\ response.body.battle_result = result
            /\ result = Outcome(pokemon1, pokemon2, turn)

\* A battle of more than ten attacks was summarised: ten entries shown.
C35_Witness ==
    /\ Answered("simulate_battle")
    /\ response.kind = "returned"
    /\ "battle_result" \in DOMAIN response.body
    /\ Len(battle_log) > 10
    /\ Len(response.body.battle_log) = 10
====
